---- MODULE Spec2Model ----
(***************************************************************************)
(* LLM-Powered Fact Checker: the fact-checking pipeline                    *)
(* (src/src/fact_checker/components/fact_checking.py), the ingestion       *)
(* (src/src/fact_checker/components/data_ingestion.py) and the application *)
(* around them (src/main.py) as a state machine.                           *)
(*                                                                         *)
(* Text is a sequence of one-character strings, so that the regular        *)
(* expressions, json.loads, str.lower and the substring tests of the code  *)
(* are computed character by character.  Numbers are exact rationals       *)
(* [n, d] in lowest terms.                                                 *)
(***************************************************************************)
EXTENDS Integers, Sequences, FiniteSets

VARIABLES
    claim_detector,     \* FactCheckingComponents.claim_detector: "None" | "loaded"
    embedding_model,    \* FactCheckingComponents.embedding_model: "None" | "loaded"
    chroma_collection,  \* FactCheckingComponents.chroma_collection: "None" | "loaded"
    store,              \* documents held by the ChromaDB collection
    pc,                 \* position of the current call
    input_text,         \* run's argument
    detection,          \* (is_claim_worthy, claim_score) returned by detect_claim
    claims,             \* list returned by extract_claims
    main_claim,         \* run's local main_claim
    retrieval_result,   \* RetrievalEntity returned by retrieve_facts
    verification,       \* (verdict, reasoning) returned by verify_claim
    result,             \* FactCheckEntity returned by run
    classifier_out,     \* what the classifier did in this run
    llm_out,            \* what the last _call_ollama of this run did
    store_out,          \* what the embedding model and the store did in this run
    calls,              \* number of invocations of each stage in this run
    app_state,          \* main.py's global app_state
    lifespan,           \* position of main.py's lifespan
    caller,             \* who made the latest call of run: lifespan or check_fact
    request,            \* the latest request to POST /check
    http_response,      \* what check_fact answered to it
    ingestion,          \* what DataIngestionComponents.run did in this process
    workers,            \* position of each thread that serves check requests
    loads               \* loads of each lazy resource the threads have started

\* the state of FactCheckingComponents and of its run
pipeline_vars == <<claim_detector, embedding_model, chroma_collection, pc, input_text,
                   detection, claims, main_claim, retrieval_result, verification,
                   result, classifier_out, llm_out, store_out, calls>>

\* the state of the application around the pipeline
app_vars == <<app_state, lifespan, caller, request, http_response, ingestion>>

\* the threads of the server and the loads they start
conc_vars == <<workers, loads>>

vars == <<pipeline_vars, store, app_vars, conc_vars>>

----------------------------------------------------------------------------
(* Bounds of the model *)

\* longest extractor response, in fragments, of the extract_claims specification
MaxExtLen == 5
\* most members of a JSON object in a verifier response of the verify_claim
\* specification
MaxMembers == 2
\* classifier scores are the multiples of 1/(2*ScoreSteps) in [0, 1]
ScoreSteps == 2
\* store distances are the multiples of 1/2 up to MaxDist/2
MaxDist == 2
\* largest number of documents in the store
MaxDocs == 2

\* threads that serve check requests at the same time
MaxWorkers == 2
\* the count of the loads of one resource stops at MaxLoads
MaxLoads == 2

\* bits of the significand of a float (53 in Python; the model keeps the
\* rounding and scales the precision down)
FloatBits == 4

\* FactCheckingConstants.TOP_K_RESULTS
TOP_K_RESULTS == 3

----------------------------------------------------------------------------
(* Rationals *)

RECURSIVE Gcd(_, _)
Gcd(a, b) == IF b = 0 THEN a ELSE Gcd(b, a % b)

\* the rational n/d (n >= 0, d > 0) in lowest terms
Rat(n, d) == LET g == Gcd(n, d) IN [n |-> n \div g, d |-> d \div g]

RatLess(x, y) == x.n * y.d < y.n * x.d

RatLeq(x, y) == x.n * y.d <= y.n * x.d

Zero == Rat(0, 1)

Half == Rat(1, 2)

One == Rat(1, 1)

----------------------------------------------------------------------------
(* Floats: binary floating point with FloatBits bits of significand and     *)
(* round-to-nearest, ties to even.  A float is the rational it denotes.     *)

RECURSIVE Pow2(_)
Pow2(k) == IF k = 0 THEN 1 ELSE 2 * Pow2(k - 1)

\* n/d scaled by a power of two into [2^(FloatBits-1), 2^FloatBits), and the
\* exponent e of that power: n/d = (result.n / result.d) * 2^e
RECURSIVE Normalize(_, _, _)
Normalize(n, d, e) ==
    IF n >= d * Pow2(FloatBits) THEN Normalize(n, 2 * d, e + 1)
    ELSE IF n < d * Pow2(FloatBits - 1) THEN Normalize(2 * n, d, e - 1)
    ELSE [n |-> n, d |-> d, e |-> e]

\* the float nearest to the rational q >= 0
FloatRound(q) ==
    IF q.n = 0 THEN Zero
    ELSE LET s  == Normalize(q.n, q.d, 0)
             m0 == s.n \div s.d
             r  == s.n % s.d
             m  == IF 2 * r > s.d \/ (2 * r = s.d /\ m0 % 2 = 1) THEN m0 + 1 ELSE m0
         IN  IF s.e >= 0 THEN Rat(m * Pow2(s.e), 1) ELSE Rat(m, Pow2(0 - s.e))

\* x + y
FloatAdd(x, y) == FloatRound(Rat(x.n * y.d + y.n * x.d, x.d * y.d))

\* x / y
FloatDiv(x, y) == FloatRound(Rat(x.n * y.d, x.d * y.n))

----------------------------------------------------------------------------
(* Text *)

Concat(ss) == LET F[i \in 0..Len(ss)] == IF i = 0 THEN <<>> ELSE F[i - 1] \o ss[i]
              IN  F[Len(ss)]

UpperLetters == <<"A","B","C","D","E","F","G","H","I","J","K","L","M",
                  "N","O","P","Q","R","S","T","U","V","W","X","Y","Z">>

LowerLetters == <<"a","b","c","d","e","f","g","h","i","j","k","l","m",
                  "n","o","p","q","r","s","t","u","v","w","x","y","z">>

IndexIn(c, letters) == IF \E i \in 1..Len(letters) : letters[i] = c
                       THEN CHOOSE i \in 1..Len(letters) : letters[i] = c
                       ELSE 0

\* str.lower()
Lower(s) == [i \in 1..Len(s) |->
               LET k == IndexIn(s[i], UpperLetters)
               IN  IF k = 0 THEN s[i] ELSE LowerLetters[k]]

\* str.upper()
Upper(s) == [i \in 1..Len(s) |->
               LET k == IndexIn(s[i], LowerLetters)
               IN  IF k = 0 THEN s[i] ELSE UpperLetters[k]]

\* the Python test `sub in s`
Contains(s, sub) ==
    \E i \in 1..(Len(s) - Len(sub) + 1) : SubSeq(s, i, i + Len(sub) - 1) = sub

\* first position >= from at which character c occurs in s, 0 when there is none
RECURSIVE FirstIndex(_, _, _)
FirstIndex(s, c, from) ==
    IF from > Len(s) THEN 0
    ELSE IF s[from] = c THEN from
    ELSE FirstIndex(s, c, from + 1)

\* re.search(open + '.*?' + close, s, re.DOTALL): the leftmost opening character
\* that has a closing character after it, up to the first such closing character
ReSearch(s, open, close) ==
    LET i == FirstIndex(s, open, 1)
        j == IF i = 0 THEN 0 ELSE FirstIndex(s, close, i + 1)
    IN  IF j = 0 THEN [found |-> FALSE, group |-> <<>>]
        ELSE [found |-> TRUE, group |-> SubSeq(s, i, j)]

----------------------------------------------------------------------------
(* json.loads *)
(* A decoded value is [t, v]: a string ("str", its characters), a list     *)
(* ("arr", its elements), a dict ("obj", its key/value pairs in order) or  *)
(* one of the literals true, false, null ("lit", its spelling).  Responses *)
(* are built from characters that spell no number and no escape sequence,  *)
(* so the decoder has no case for them.                                    *)

JStr(chars) == [t |-> "str", v |-> chars]

JArr(items) == [t |-> "arr", v |-> items]

JObj(pairs) == [t |-> "obj", v |-> pairs]

JLit(chars) == [t |-> "lit", v |-> chars]

Literals == {<<"t","r","u","e">>, <<"f","a","l","s","e">>, <<"n","u","l","l">>}

Whitespace == {" ", "\t", "\n", "\r"}

DecodeError == [ok |-> FALSE, val |-> JLit(<<>>), next |-> 0]

Decoded(val, next) == [ok |-> TRUE, val |-> val, next |-> next]

\* json.decoder.WHITESPACE.match(s, i).end()
RECURSIVE SkipWs(_, _)
SkipWs(s, i) ==
    IF i > Len(s) THEN i
    ELSE IF s[i] \in Whitespace THEN SkipWs(s, i + 1)
    ELSE i

CharAt(s, i) == IF i >= 1 /\ i <= Len(s) THEN s[i] ELSE ""

\* json.decoder.scanstring (strict): i is the place of the opening quote
ScanString(s, i) ==
    LET j == FirstIndex(s, "\"", i + 1) IN
    IF j = 0 THEN DecodeError
    ELSE LET body == SubSeq(s, i + 1, j - 1) IN
         IF \E k \in 1..Len(body) : body[k] \in {"\t", "\n", "\r"}
         THEN DecodeError
         ELSE Decoded(JStr(body), j + 1)

RECURSIVE ScanOnce(_, _)
RECURSIVE ArrayItems(_, _, _)
RECURSIVE ObjectItems(_, _, _)

\* json.decoder.JSONArray after the first element's place has been found
ArrayItems(s, i, acc) ==
    LET e == ScanOnce(s, i) IN
    IF ~e.ok THEN DecodeError
    ELSE LET j == SkipWs(s, e.next)
             c == CharAt(s, j)
         IN  IF c = "]" THEN Decoded(JArr(Append(acc, e.val)), j + 1)
             ELSE IF c = "," THEN ArrayItems(s, SkipWs(s, j + 1), Append(acc, e.val))
             ELSE DecodeError

\* json.decoder.JSONArray: i is the place after the opening bracket
JSONArray(s, i) ==
    LET j == SkipWs(s, i) IN
    IF CharAt(s, j) = "]" THEN Decoded(JArr(<<>>), j + 1)
    ELSE ArrayItems(s, j, <<>>)

\* json.decoder.JSONObject from the opening quote of a key on
ObjectItems(s, i, acc) ==
    LET k == ScanString(s, i) IN
    IF ~k.ok THEN DecodeError
    ELSE LET j == SkipWs(s, k.next) IN
         IF CharAt(s, j) # ":" THEN DecodeError
         ELSE LET e == ScanOnce(s, SkipWs(s, j + 1)) IN
              IF ~e.ok THEN DecodeError
              ELSE LET m    == SkipWs(s, e.next)
                       c    == CharAt(s, m)
                       more == Append(acc, [k |-> k.val.v, val |-> e.val])
                   IN  IF c = "}" THEN Decoded(JObj(more), m + 1)
                       ELSE IF c = ","
                       THEN LET n == SkipWs(s, m + 1) IN
                            IF CharAt(s, n) = "\"" THEN ObjectItems(s, n, more)
                            ELSE DecodeError
                       ELSE DecodeError

\* json.decoder.JSONObject: i is the place after the opening brace
JSONObject(s, i) ==
    LET j == SkipWs(s, i)
        c == CharAt(s, j)
    IN  IF c = "}" THEN Decoded(JObj(<<>>), j + 1)
        ELSE IF c = "\"" THEN ObjectItems(s, j, <<>>)
        ELSE DecodeError

\* json.scanner.py_make_scanner._scan_once
ScanOnce(s, i) ==
    LET c == CharAt(s, i) IN
    IF c = "\"" THEN ScanString(s, i)
    ELSE IF c = "{" THEN JSONObject(s, i + 1)
    ELSE IF c = "[" THEN JSONArray(s, i + 1)
    ELSE IF \E w \in Literals : w[1] = c /\ i + Len(w) - 1 <= Len(s)
                                  /\ SubSeq(s, i, i + Len(w) - 1) = w
    THEN LET w == CHOOSE w \in Literals : w[1] = c /\ i + Len(w) - 1 <= Len(s)
                                  /\ SubSeq(s, i, i + Len(w) - 1) = w
         IN  Decoded(JLit(w), i + Len(w))
    ELSE DecodeError

\* json.loads: [ok, val]; ok = FALSE stands for json.JSONDecodeError
JsonLoads(s) ==
    LET e == ScanOnce(s, SkipWs(s, 1)) IN
    IF e.ok /\ SkipWs(s, e.next) = Len(s) + 1
    THEN [ok |-> TRUE, val |-> e.val]
    ELSE [ok |-> FALSE, val |-> JLit(<<>>)]

\* dict.get(key, default) on a decoded dict: the last pair of a repeated key wins
DictGet(pairs, key, default) ==
    IF \E i \in 1..Len(pairs) : pairs[i].k = key
    THEN pairs[CHOOSE i \in 1..Len(pairs) :
                  pairs[i].k = key /\ \A j \in (i + 1)..Len(pairs) : pairs[j].k # key].val
    ELSE default

----------------------------------------------------------------------------
(* String constants of the code *)

\* 'True'
StrTrue ==
    <<"T","r","u","e">>

\* 'False'
StrFalse ==
    <<"F","a","l","s","e">>

\* 'Unverifiable'
StrUnverifiable ==
    <<"U","n","v","e","r","i","f","i","a","b","l","e">>

\* the key 'verdict'
KeyVerdict ==
    <<"v","e","r","d","i","c","t">>

\* the key 'reasoning'
KeyReasoning ==
    <<"r","e","a","s","o","n","i","n","g">>

\* the keyword 'true'
WordTrue ==
    <<"t","r","u","e">>

\* the keyword 'false'
WordFalse ==
    <<"f","a","l","s","e">>

\* 'CFS'
LabelCFS ==
    <<"C","F","S">>

\* verify_claim's default reasoning
UnableToDetermine ==
    <<"U","n","a","b","l","e"," ","t","o"," ","d","e","t","e","r","m","i","n",
          "e",".">>

\* prefix of verify_claim's reasoning when the LLM call fails
ErrorDuringVerification ==
    <<"E","r","r","o","r"," ","d","u","r","i","n","g"," ","v","e","r","i","f",
          "i","c","a","t","i","o","n",":"," ">>

\* run's reasoning for an input that is not claim-worthy
NotClaimWorthyReasoning ==
    <<"T","h","e"," ","i","n","p","u","t"," ","d","o","e","s"," ","n","o","t",
          " ","a","p","p","e","a","r"," ","t","o"," ","c","o","n","t","a","i",
          "n"," ","a"," ","f","a","c","t","u","a","l"," ","c","l","a","i","m",
          " ","t","h","a","t"," ","c","a","n"," ","b","e"," ","v","e","r","i",
          "f","i","e","d",".">>

\* retrieve_facts' default source
StrUnknown ==
    <<"U","n","k","n","o","w","n">>

\* CustomException.__str__
CustomExceptionPrefix ==
    <<"C","u","s","t","o","m","E","x","c","e","p","t","i","o","n",":"," ">>

----------------------------------------------------------------------------
(* Values exchanged with the collaborators *)

\* what _call_ollama did: returned the text of the response, or raised
\* CustomException(message)
NoLLM == [kind |-> "none", text |-> <<>>]

LLMResponse(response) == [kind |-> "response", text |-> response]

LLMError(message) == [kind |-> "error", text |-> message]

\* a Python float, or a value that is no number
Num(r) == [num |-> TRUE, v |-> r]

NotANumber == [num |-> FALSE, v |-> Zero]

\* one element of the list the text-classification pipeline returns: a dict
\* with or without 'label' and 'score', or something that is no dict
ClassifierItem(isDict, hasLabel, labelIsStr, label, hasScore, score) ==
    [dict |-> isDict, has_label |-> hasLabel, label_str |-> labelIsStr,
     label |-> label, has_score |-> hasScore, score |-> score]

NotADict == ClassifierItem(FALSE, FALSE, FALSE, <<>>, FALSE, NotANumber)

\* what the classifier did: the model failed to load ("load_error"), inference
\* raised ("infer_error"), or it returned a list ("output")
NoClassifier == [kind |-> "none", items |-> <<>>]

ClassifierFailed(kind) == [kind |-> kind, items |-> <<>>]

ClassifierOutput(items) == [kind |-> "output", items |-> items]

\* str(CustomException(message, sys)); the line and the path of the raising
\* frame are one token each
CustomExceptionStr(message) ==
    CustomExceptionPrefix \o message \o <<" on line: ", "<line>", " of ", "<path>">>

----------------------------------------------------------------------------
(* FactCheckingComponents *)

\* an except branch that fails closed
DetectDefaultClosed ==
    [set |-> TRUE, is_claim_worthy |-> FALSE, claim_score |-> Num(Half)]

\* detect_claim's except branch: (True, 0.5)
DetectDefault == [set |-> TRUE, is_claim_worthy |-> TRUE, claim_score |-> Num(Half)]

\* a threshold test that takes 0.5 itself as claim-worthy
ScoreAtLeastHalf(score) == RatLeq(Half, score)

\* score > 0.5
ScoreAboveHalf(score) == RatLess(Half, score)

\* detect_claim, given what the classifier does
detect_claim(c) ==
    IF c.kind # "output" THEN DetectDefault            \* load or inference raised
    ELSE IF c.items = <<>> THEN DetectDefault            \* [0]: IndexError
    ELSE LET r == c.items[1] IN
         IF ~r.dict THEN DetectDefault                   \* .get: AttributeError
         ELSE LET label_str == IF r.has_label THEN r.label_str ELSE TRUE
                  label     == IF r.has_label THEN r.label ELSE <<>>
                  score     == IF r.has_score THEN r.score ELSE Num(Zero)
              IN  IF ~label_str THEN DetectDefault       \* .upper: AttributeError
                  ELSE IF Contains(Upper(label), LabelCFS)
                  THEN [set |-> TRUE, is_claim_worthy |-> TRUE, claim_score |-> score]
                  ELSE IF ~score.num THEN DetectDefault  \* score > 0.5: TypeError
                  ELSE [set |-> TRUE, is_claim_worthy |-> ScoreAboveHalf(score.v),
                        claim_score |-> score]

\* a fallback that returns no claim
OriginalTextDropped(text) == <<>>

\* extract_claims' fallback: [text]
OriginalTextOnly(text) == <<JStr(text)>>

\* extract_claims, given what _call_ollama does: the list returned
extract_claims(text, llm) ==
    IF llm.kind # "response" THEN OriginalTextOnly(text)       \* except Exception
    ELSE LET match == ReSearch(llm.text, "[", "]") IN
         IF match.found
         THEN LET parsed == JsonLoads(match.group) IN
              IF parsed.ok THEN parsed.val.v
              ELSE OriginalTextOnly(text)                       \* JSONDecodeError
         ELSE OriginalTextOnly(text)

\* a transform that forgets the reciprocal
SimilarityNoReciprocal(d) == FloatAdd(One, d)

\* 1 / (1 + d), in float arithmetic
Similarity(d) == FloatDiv(One, FloatAdd(One, d))

\* retrieve_facts' result on the hits the store returns
\* an entity whose documents are listed farthest first, beside scores and
\* sources listed nearest first
RetrievalEntityReversed(claim, hits) ==
    [set |-> TRUE,
     query |-> claim,
     retrieved_documents |-> [i \in 1..Len(hits) |-> hits[Len(hits) + 1 - i].document],
     similarity_scores |-> [i \in 1..Len(hits) |-> Similarity(hits[i].distance)],
     sources |-> [i \in 1..Len(hits) |->
                    DictGet(hits[i].metadata, "source", StrUnknown)]]

RetrievalEntity(claim, hits) ==
    [set |-> TRUE,
     query |-> claim,
     retrieved_documents |-> [i \in 1..Len(hits) |-> hits[i].document],
     similarity_scores |-> [i \in 1..Len(hits) |-> Similarity(hits[i].distance)],
     sources |-> [i \in 1..Len(hits) |->
                    DictGet(hits[i].metadata, "source", StrUnknown)]]

\* a keyword scan that does not lower the response
KeywordVerdictCaseSensitive(response) ==
    IF Contains(response, WordTrue) /\ ~Contains(response, WordFalse)
    THEN StrTrue
    ELSE IF Contains(response, WordFalse) THEN StrFalse
    ELSE StrUnverifiable

\* verify_claim's keyword fallback on the raw response
KeywordVerdict(response) ==
    LET response_lower == Lower(response) IN
    IF Contains(response_lower, WordTrue) /\ ~Contains(response_lower, WordFalse)
    THEN StrTrue
    ELSE IF Contains(response_lower, WordFalse) THEN StrFalse
    ELSE StrUnverifiable

\* an except branch that turns a failed call into a False verdict
VerifyErrorAsFalse(message) ==
    [set |-> TRUE, verdict |-> JStr(StrFalse),
     reasoning |-> JStr(ErrorDuringVerification \o CustomExceptionStr(message))]

\* verify_claim's except branch
VerifyError(message) ==
    [set |-> TRUE, verdict |-> JStr(StrUnverifiable),
     reasoning |-> JStr(ErrorDuringVerification \o CustomExceptionStr(message))]

\* verify_claim, given what _call_ollama does: (verdict, reasoning)
verify_claim(claim, evidence, llm) ==
    IF llm.kind # "response" THEN VerifyError(llm.text)
    ELSE LET response == llm.text
             match    == ReSearch(response, "{", "}")
             parsed   == IF match.found THEN JsonLoads(match.group)
                         ELSE [ok |-> FALSE, val |-> JLit(<<>>)]
         IN  IF parsed.ok
             THEN [set |-> TRUE,
                   verdict |-> DictGet(parsed.val.v, KeyVerdict, JStr(StrUnverifiable)),
                   reasoning |-> DictGet(parsed.val.v, KeyReasoning,
                                         JStr(UnableToDetermine))]
             ELSE [set |-> TRUE, verdict |-> JStr(KeywordVerdict(response)),
                   reasoning |-> JStr(response)]

\* a confidence taken from the last score instead of the largest
ConfidenceOfLast(similarity_scores) ==
    IF similarity_scores = <<>> THEN Zero
    ELSE similarity_scores[Len(similarity_scores)]

\* max(similarity_scores) if similarity_scores else 0.0
ConfidenceOf(similarity_scores) ==
    IF similarity_scores = <<>> THEN Zero
    ELSE LET i == CHOOSE i \in 1..Len(similarity_scores) :
                    \A j \in 1..Len(similarity_scores) :
                        RatLeq(similarity_scores[j], similarity_scores[i])
         IN  similarity_scores[i]

\* whether pydantic takes v for a field declared str: a str always; a bool
\* only where the installed pydantic coerces numbers to str
StrFieldOk(v, coerce) == v.t = "str" \/ (coerce /\ v.t = "lit" /\ v.v # <<"n","u","l","l">>)

\* the value pydantic stores in a str field
StrField(v) ==
    IF v.t = "str" THEN v.v
    ELSE IF v.v = WordTrue THEN StrTrue ELSE StrFalse

NoEntity == [set |-> FALSE]

\* FactCheckEntity(...)
FactCheckEntity(original_input, claim, verdict, evidence, reasoning, confidence_score) ==
    [set |-> TRUE, original_input |-> original_input, claim |-> claim,
     verdict |-> verdict, evidence |-> evidence, reasoning |-> reasoning,
     confidence_score |-> confidence_score]

\* a short-circuit that returns no entity
ShortCircuitNothing(text, claim_score) == NoEntity

\* a short-circuit result that forgets the classifier's score
ShortCircuitEntityNoScore(text, claim_score) ==
    FactCheckEntity(text, text, StrUnverifiable, <<>>, NotClaimWorthyReasoning, Zero)

\* the FactCheckEntity run returns for an input that is not claim-worthy
ShortCircuitEntity(text, claim_score) ==
    FactCheckEntity(text, text, StrUnverifiable, <<>>, NotClaimWorthyReasoning,
                    claim_score.v)

----------------------------------------------------------------------------
(* Inputs *)

Min(a, b) == IF a < b THEN a ELSE b

\* the sequences over S of length at most n
SeqsUpTo(S, n) == UNION {[1..k -> S] : k \in 0..n}

\* texts handed to run
Texts == {<<"x">>, <<"y", " ", "z">>}

\* messages of the exceptions _call_ollama wraps
LLMErrorMessages == {<<"t","i","m","e","o","u","t">>}

\* labels the classifier may give; the code names NFS, UFS and CFS
Labels == {<<"C","F","S">>, <<"N","F","S">>, <<"U","F","S">>, <<"c","f","s","_","x">>}

\* scores the classifier may give: 0, 1/(2*ScoreSteps), ..., 1
Scores == {Rat(k, 2 * ScoreSteps) : k \in 0..(2 * ScoreSteps)}

ClassifierItems ==
    {NotADict}
    \cup {ClassifierItem(TRUE, hl, ls, IF hl /\ ls THEN l ELSE <<>>,
                         hs, IF hs THEN sc ELSE NotANumber) :
            hl \in BOOLEAN, ls \in BOOLEAN, l \in Labels, hs \in BOOLEAN,
            sc \in {Num(r) : r \in Scores} \cup {NotANumber}}

\* what the classifier may do in one detect_claim; loading is tried only while
\* claim_detector is None
ClassifierOutcomes(detector) ==
    {ClassifierFailed("infer_error"), ClassifierOutput(<<>>)}
    \cup (IF detector = "None" THEN {ClassifierFailed("load_error")} ELSE {})
    \cup {ClassifierOutput(<<item>>) : item \in ClassifierItems}

Quoted(chars) == <<"\"">> \o chars \o <<"\"">>

\* the text  "key":value
Member(key, value) == Quoted(key) \o <<":">> \o value

\* members joined by commas
RECURSIVE Joined(_)
Joined(members) ==
    IF members = <<>> THEN <<>>
    ELSE IF Len(members) = 1 THEN members[1]
    ELSE members[1] \o <<",">> \o Joined(Tail(members))

\* the text  {member,member,...}
ObjectText(members) == <<"{">> \o Joined(members) \o <<"}">>

\* the text  [item,item,...]
ArrayText(items) == <<"[">> \o Joined(items) \o <<"]">>

\* extractor responses of the pipeline specification: no array, an empty array,
\* arrays of one and two claims, an array in prose, prose with brackets of its
\* own, a bracketed text that is no JSON, a claim that holds a bracket
ExtPipeResponses ==
    { <<"a">>,
      ArrayText(<<>>),
      ArrayText(<<Quoted(<<"b">>)>>),
      ArrayText(<<Quoted(<<"b">>), Quoted(<<"a">>)>>),
      <<"a", " ">> \o ArrayText(<<Quoted(<<"b">>)>>) \o <<"a">>,
      <<"[", "a", "]", " ">> \o ArrayText(<<Quoted(<<"b">>)>>),
      <<"[", "\"", "]">>,
      ArrayText(<<Quoted(<<"]">>)>>) }

ExtPipeOutcomes ==
    {LLMError(m) : m \in LLMErrorMessages} \cup {LLMResponse(r) : r \in ExtPipeResponses}

\* verifier responses of the pipeline specification: objects with both fields,
\* with an unlisted verdict, with a verdict that is no string, with no field,
\* in prose; texts with no object
VerPipeResponses ==
    { ObjectText(<<Member(KeyVerdict, Quoted(StrTrue)),
                   Member(KeyReasoning, Quoted(<<"o","k">>))>>),
      ObjectText(<<Member(KeyVerdict, Quoted(StrFalse))>>),
      ObjectText(<<Member(KeyVerdict, Quoted(<<"M","a","y","b","e">>)),
                   Member(KeyReasoning, Quoted(<<"o","k">>))>>),
      ObjectText(<<Member(KeyVerdict, WordTrue)>>),
      ObjectText(<<Member(KeyVerdict, <<"n","u","l","l">>)>>),
      ObjectText(<<>>),
      <<"x", " ">> \o ObjectText(<<Member(KeyVerdict, Quoted(StrUnverifiable))>>),
      <<"{", "x", "}">>,
      <<"i","s"," ","T","R","U","E">>,
      <<"n","o","t"," ","t","r","u","e",":"," ","F","a","l","s","e">>,
      <<"x">>,
      <<>> }

VerPipeOutcomes ==
    {LLMError(m) : m \in LLMErrorMessages} \cup {LLMResponse(r) : r \in VerPipeResponses}

\* the i-th verified fact of the corpus, as stored by the ingestion
Fact(i) == [id |-> i,
            document |-> [j \in 1..i |-> "d"],
            metadata |-> <<[k |-> "source", val |-> [j \in 1..i |-> "s"]]>>]

\* the collection after ingesting a corpus of n facts
StoreOf(n) == [i \in 1..n |-> Fact(i)]

\* distances the store may report: 0, 1/2, ..., MaxDist/2
Distances == {Rat(k, 2) : k \in 0..MaxDist}

\* collection.query(n_results = TOP_K_RESULTS): the nearest min(k, count)
\* documents, each once, nearest first
QueryResults(docs) ==
    LET n == Min(TOP_K_RESULTS, Len(docs)) IN
    { [i \in 1..n |-> [document |-> docs[order[i]].document,
                       distance |-> dist[i],
                       metadata |-> docs[order[i]].metadata]] :
        order \in {o \in [1..n -> 1..Len(docs)] :
                     \A i, j \in 1..n : i # j => o[i] # o[j]},
        dist \in {d \in [1..n -> Distances] :
                     \A i \in 1..(n - 1) : RatLeq(d[i], d[i + 1])} }

NoStore == [kind |-> "none", hits |-> <<>>]

StoreFailed(kind) == [kind |-> kind, hits |-> <<>>]

StoreHits(hits) == [kind |-> "ok", hits |-> hits]

\* what the embedding model and the store may do in one retrieve_facts; each
\* load is tried only while the field is None
StoreOutcomes(model, collection, docs) ==
    {StoreFailed("encode_error"), StoreFailed("query_error")}
    \cup (IF model = "None" THEN {StoreFailed("embedding_load_error")} ELSE {})
    \cup (IF collection = "None" THEN {StoreFailed("chromadb_load_error")} ELSE {})
    \cup {StoreHits(h) : h \in QueryResults(docs)}

----------------------------------------------------------------------------
(* Values of the application: main.py and the ingestion *)

\* the query of lifespan's health check
HealthCheckQuery ==
    <<"T","e","s","t"," ","q","u","e","r","y"," ","f","o","r"," ","h","e","a",
          "l","t","h"," ","c","h","e","c","k">>

\* app_state as the module defines it
AppStateInit == [fact_checker |-> "None", document_count |-> 0, is_ready |-> FALSE]

NoRequest == [set |-> FALSE, claim |-> <<>>]

\* FactCheckRequest(claim = text)
FactCheckRequest(text) == [set |-> TRUE, claim |-> text]

NoResponse == [status |-> 0, body |-> NoEntity]

\* raise HTTPException(status_code = status)
HTTPException(status) == [status |-> status, body |-> NoEntity]

\* return FactCheckResponse(...): the fields of the entity, status 200
FactCheckResponse(entity) == [status |-> 200, body |-> entity]

NoIngestion == [kind |-> "none", corpus |-> 0, before |-> <<>>, document_count |-> 0]

\* characters str.strip() removes
StripChars == {" ", "\t", "\n", "\r"}

\* str.strip()
RECURSIVE Strip(_)
Strip(s) ==
    IF s = <<>> THEN s
    ELSE IF Head(s) \in StripChars THEN Strip(Tail(s))
    ELSE IF s[Len(s)] \in StripChars THEN Strip(SubSeq(s, 1, Len(s) - 1))
    ELSE s

\* the threads of the server's pool
Workers == 1..MaxWorkers

\* the lazily loaded fields of FactCheckingComponents
Resources == {"claim_detector", "embedding_model", "chroma_collection"}

\* no thread is serving a request, and none has started a load
NoWorkers ==
    /\ workers = [w \in Workers |-> "Idle"]
    /\ loads = [r \in Resources |-> 0]

\* the application before lifespan has run
AppInit ==
    /\ app_state = AppStateInit
    /\ lifespan = "NotStarted"
    /\ caller = "none"
    /\ request = NoRequest
    /\ http_response = NoResponse
    /\ ingestion = NoIngestion
    /\ NoWorkers

\* the application after a startup that found the store populated, inside
\* check_fact's call of run(input_text)
AppServing ==
    /\ app_state = [fact_checker |-> "FactCheckingPipeline",
                    document_count |-> Len(store), is_ready |-> TRUE]
    /\ lifespan = "Yielded"
    /\ caller = "check_fact"
    /\ request = FactCheckRequest(input_text)
    /\ http_response = NoResponse
    /\ ingestion = [kind |-> "skipped", corpus |-> Len(store), before |-> store,
                    document_count |-> Len(store)]
    /\ NoWorkers

----------------------------------------------------------------------------
(* FactCheckingComponents.run, one step per stage *)

NoDetection == [set |-> FALSE]

NoRetrieval == [set |-> FALSE]

NoVerification == [set |-> FALSE]

NoCalls == [detect_claim |-> 0, extract_claims |-> 0, retrieve_facts |-> 0,
            verify_claim |-> 0, call_ollama |-> 0]

Returned == {"ShortCircuitUnverifiable", "Done"}

Idle == {"Start", "Raised"} \cup Returned

Init ==
    /\ claim_detector = "None"
    /\ embedding_model = "None"
    /\ chroma_collection = "None"
    /\ store \in {StoreOf(n) : n \in 0..MaxDocs}
    /\ pc = "Start"
    /\ input_text = <<>>
    /\ detection = NoDetection
    /\ claims = <<>>
    /\ main_claim = JStr(<<>>)
    /\ retrieval_result = NoRetrieval
    /\ verification = NoVerification
    /\ result = NoEntity
    /\ classifier_out = NoClassifier
    /\ llm_out = NoLLM
    /\ store_out = NoStore
    /\ calls = NoCalls
    /\ AppInit

\* run(text) is entered on a component at rest
CallRun(text) ==
    /\ pc \in Idle
    /\ input_text' = text
    /\ pc' = "Detecting"
    /\ detection' = NoDetection
    /\ claims' = <<>>
    /\ main_claim' = JStr(<<>>)
    /\ retrieval_result' = NoRetrieval
    /\ verification' = NoVerification
    /\ result' = NoEntity
    /\ classifier_out' = NoClassifier
    /\ llm_out' = NoLLM
    /\ store_out' = NoStore
    /\ calls' = NoCalls
    /\ UNCHANGED <<claim_detector, embedding_model, chroma_collection>>

\* run(input_text) is called
RunCall == (\E text \in Texts : CallRun(text)) /\ UNCHANGED <<store, app_vars, conc_vars>>

\* Step 1: detect_claim, and the return of run for an input that is not
\* claim-worthy
DetectStep(outcomes) ==
    /\ pc = "Detecting"
    /\ \E c \in outcomes :
         LET d == detect_claim(c) IN
         /\ classifier_out' = c
         /\ claim_detector' = IF c.kind = "load_error" THEN "None" ELSE "loaded"
         /\ detection' = d
         /\ IF ~d.is_claim_worthy
            THEN /\ result' = ShortCircuitEntity(input_text, d.claim_score)
                 /\ pc' = "ShortCircuitUnverifiable"
            ELSE /\ result' = result
                 /\ pc' = "Extracting"
    /\ calls' = [calls EXCEPT !.detect_claim = @ + 1]
    /\ UNCHANGED <<embedding_model, chroma_collection, store, input_text, claims,
                   main_claim, retrieval_result, verification, llm_out, store_out>>

RunDetect == DetectStep(ClassifierOutcomes(claim_detector)) /\ UNCHANGED <<app_vars, conc_vars>>

\* a stage that is run again when its LLM call failed
AfterExtractRetry(llm) == IF llm.kind = "error" THEN "Extracting" ELSE "Retrieving"

\* run goes from extract_claims to retrieve_facts, whatever the extraction gave
AfterExtract(llm) == "Retrieving"

\* a choice that takes the last extracted claim
MainClaimLast(cs, text) == IF cs # <<>> THEN cs[Len(cs)] ELSE JStr(text)

\* a choice with no fallback to the input
MainClaimOrNothing(cs, text) == IF cs # <<>> THEN cs[1] ELSE JStr(<<>>)

\* claims[0] if claims else input_text
MainClaim(cs, text) == IF cs # <<>> THEN cs[1] ELSE JStr(text)

\* Step 2: extract_claims on what the extraction model answers, and the choice
\* of main_claim
ExtractStep(outcomes) ==
    /\ pc = "Extracting"
    /\ \E llm \in outcomes :
         LET cs == extract_claims(input_text, llm) IN
         /\ llm_out' = llm
         /\ claims' = cs
         /\ main_claim' = MainClaim(cs, input_text)
         /\ pc' = AfterExtract(llm)
    /\ classifier_out' = NoClassifier
    /\ calls' = [calls EXCEPT !.extract_claims = @ + 1, !.call_ollama = @ + 1]
    /\ UNCHANGED <<claim_detector, embedding_model, chroma_collection, store,
                   input_text, detection, retrieval_result, verification, result,
                   store_out>>

RunExtract == ExtractStep(ExtPipeOutcomes) /\ UNCHANGED <<app_vars, conc_vars>>

\* Step 3: retrieve_facts; its CustomException leaves run
RetrieveStep(outcomes) ==
    /\ pc = "Retrieving"
    /\ \E q \in outcomes :
         /\ store_out' = q
         /\ embedding_model' =
              IF q.kind = "embedding_load_error" THEN "None" ELSE "loaded"
         /\ chroma_collection' =
              IF q.kind \in {"embedding_load_error", "chromadb_load_error"}
              THEN chroma_collection ELSE "loaded"
         /\ IF q.kind = "ok"
            THEN /\ retrieval_result' = RetrievalEntity(main_claim.v, q.hits)
                 /\ pc' = "Verifying"
            ELSE /\ retrieval_result' = retrieval_result
                 /\ pc' = "Raised"
    /\ llm_out' = NoLLM
    /\ calls' = [calls EXCEPT !.retrieve_facts = @ + 1]
    /\ UNCHANGED <<claim_detector, store, input_text, detection, claims, main_claim,
                   verification, result, classifier_out>>

RunRetrieve ==
    /\ RetrieveStep(StoreOutcomes(embedding_model, chroma_collection, store))
    /\ UNCHANGED <<app_vars, conc_vars>>

\* Step 4: verify_claim on what the verification model answers, and the
\* FactCheckEntity run returns
VerifyStep(outcomes) ==
    /\ pc = "Verifying"
    /\ \E llm \in outcomes :
         LET v == verify_claim(main_claim.v, retrieval_result.retrieved_documents, llm)
         IN  /\ llm_out' = llm
             /\ verification' = v
             /\ \E coerce \in IF v.verdict.t = "str" /\ v.reasoning.t = "str"
                              THEN {FALSE} ELSE BOOLEAN :
                  IF StrFieldOk(v.verdict, coerce) /\ StrFieldOk(v.reasoning, coerce)
                  THEN /\ result' = FactCheckEntity(
                                       input_text, main_claim.v, StrField(v.verdict),
                                       retrieval_result.retrieved_documents,
                                       StrField(v.reasoning),
                                       ConfidenceOf(retrieval_result.similarity_scores))
                       /\ pc' = "Done"
                  ELSE /\ result' = result
                       /\ pc' = "Raised"
    /\ store_out' = NoStore
    /\ calls' = [calls EXCEPT !.verify_claim = @ + 1, !.call_ollama = @ + 1]
    /\ UNCHANGED <<claim_detector, embedding_model, chroma_collection, store,
                   input_text, detection, claims, main_claim, retrieval_result,
                   classifier_out>>

RunVerify == VerifyStep(VerPipeOutcomes) /\ UNCHANGED <<app_vars, conc_vars>>

Next == RunCall \/ RunDetect \/ RunExtract \/ RunRetrieve \/ RunVerify

Spec == Init /\ [][Next]_vars

----------------------------------------------------------------------------
(* extract_claims alone, on every response of up to MaxExtLen fragments *)

\* pieces of an extractor response: brackets, a quote, a comma, a letter, and
\* a whole JSON string
ExtFragments == {<<"[">>, <<"]">>, <<"\"">>, <<",">>, <<"a">>, Quoted(<<"b">>)}

ExtResponses == {Concat(fs) : fs \in SeqsUpTo(ExtFragments, MaxExtLen)}

ExtOutcomes ==
    {LLMError(m) : m \in LLMErrorMessages} \cup {LLMResponse(r) : r \in ExtResponses}

\* run has found the input claim-worthy and is about to call extract_claims
InitExtract ==
    /\ claim_detector = "loaded"
    /\ embedding_model = "None"
    /\ chroma_collection = "None"
    /\ store = StoreOf(MaxDocs)
    /\ pc = "Extracting"
    /\ input_text \in Texts
    /\ classifier_out =
         ClassifierOutput(<<ClassifierItem(TRUE, TRUE, TRUE, LabelCFS, TRUE, Num(One))>>)
    /\ detection = detect_claim(classifier_out)
    /\ claims = <<>>
    /\ main_claim = JStr(<<>>)
    /\ retrieval_result = NoRetrieval
    /\ verification = NoVerification
    /\ result = NoEntity
    /\ llm_out = NoLLM
    /\ store_out = NoStore
    /\ calls = [NoCalls EXCEPT !.detect_claim = 1]
    /\ AppServing

ExtractAny == ExtractStep(ExtOutcomes) /\ UNCHANGED <<app_vars, conc_vars>>

SpecExtract == InitExtract /\ [][ExtractAny]_vars

----------------------------------------------------------------------------
(* verify_claim alone, on every response made of a JSON object of up to    *)
(* MaxMembers members between two pieces of prose                          *)

\* values of a member: a verdict, an empty string, a string that holds a
\* brace, the literal true
VerValues == {Quoted(StrTrue), Quoted(<<>>), Quoted(<<"}">>), WordTrue}

VerMembers == {Member(k, v) : k \in {KeyVerdict, KeyReasoning}, v \in VerValues}

VerBodies == {<<>>} \cup {ObjectText(ms) : ms \in SeqsUpTo(VerMembers, MaxMembers)}

VerProse == {<<>>, <<"x">>, <<"t","R","u","e">>, <<"F","a","l","s","e">>,
             <<"{">>, <<"}">>}

VerProseAfter == {<<>>, <<"F","a","l","s","e">>, <<"}">>}

VerResponses == {pre \o body \o post : pre \in VerProse, body \in VerBodies,
                                       post \in VerProseAfter}

VerOutcomes ==
    {LLMError(m) : m \in LLMErrorMessages} \cup {LLMResponse(r) : r \in VerResponses}

\* run has retrieved the one document of the store for its claim and is about
\* to call verify_claim
InitVerify ==
    /\ claim_detector = "loaded"
    /\ embedding_model = "loaded"
    /\ chroma_collection = "loaded"
    /\ store = StoreOf(1)
    /\ pc = "Verifying"
    /\ input_text \in Texts
    /\ classifier_out = NoClassifier
    /\ detection = [set |-> TRUE, is_claim_worthy |-> TRUE, claim_score |-> Num(One)]
    /\ claims = OriginalTextOnly(input_text)
    /\ main_claim = JStr(input_text)
    /\ store_out = StoreHits(<<[document |-> store[1].document, distance |-> Half,
                                 metadata |-> store[1].metadata]>>)
    /\ retrieval_result = RetrievalEntity(input_text, store_out.hits)
    /\ verification = NoVerification
    /\ result = NoEntity
    /\ llm_out = NoLLM
    /\ calls = [NoCalls EXCEPT !.detect_claim = 1, !.extract_claims = 1,
                               !.call_ollama = 1, !.retrieve_facts = 1]
    /\ AppServing

VerifyAny == VerifyStep(VerOutcomes) /\ UNCHANGED <<app_vars, conc_vars>>

SpecVerify == InitVerify /\ [][VerifyAny]_vars

----------------------------------------------------------------------------
(* retrieve_facts alone, on the two documents of a store at every pair of  *)
(* float distances                                                         *)

\* the floats m * 2^e with 0 <= m < 2^FloatBits and -(FloatBits + 2) <= e < 0:
\* the distances from 0 up to 2^(FloatBits - 1), down to steps far below the
\* spacing of the floats around 1
FloatDistances ==
    {Rat(m * Pow2(k), Pow2(FloatBits + 2)) :
        m \in 0..(Pow2(FloatBits) - 1), k \in 0..(FloatBits + 1)}

\* the store returns its two documents, nearest first
FloatStoreOutcomes(docs) ==
    {StoreHits(<<[document |-> docs[1].document, distance |-> d[1],
                  metadata |-> docs[1].metadata],
                 [document |-> docs[2].document, distance |-> d[2],
                  metadata |-> docs[2].metadata]>>) :
        d \in {p \in FloatDistances \X FloatDistances : RatLeq(p[1], p[2])}}

\* run has extracted its claim and is about to call retrieve_facts
InitRetrieve ==
    /\ claim_detector = "loaded"
    /\ embedding_model = "loaded"
    /\ chroma_collection = "loaded"
    /\ store = StoreOf(2)
    /\ pc = "Retrieving"
    /\ input_text \in Texts
    /\ classifier_out = NoClassifier
    /\ detection = [set |-> TRUE, is_claim_worthy |-> TRUE, claim_score |-> Num(One)]
    /\ claims = OriginalTextOnly(input_text)
    /\ main_claim = JStr(input_text)
    /\ retrieval_result = NoRetrieval
    /\ verification = NoVerification
    /\ result = NoEntity
    /\ llm_out = LLMError(<<"t","i","m","e","o","u","t">>)
    /\ store_out = NoStore
    /\ calls = [NoCalls EXCEPT !.detect_claim = 1, !.extract_claims = 1,
                               !.call_ollama = 1]
    /\ AppServing

RetrieveAny == RetrieveStep(FloatStoreOutcomes(store)) /\ UNCHANGED <<app_vars, conc_vars>>

SpecRetrieve == InitRetrieve /\ [][RetrieveAny]_vars

----------------------------------------------------------------------------
(* DataIngestionComponents.run *)

\* the CSV file of n verified facts
Corpus(n) == StoreOf(n)

\* where one ingestion run may fail: reading the CSV, loading the embedding
\* model, opening the store, counting the collection, embedding or adding
IngestionFaults ==
    {"none", "csv_error", "model_error", "chromadb_error", "count_error", "add_error"}

\* a check that never finds the collection populated
NeverIngested(existing_count) == FALSE

\* existing_count > 0
AlreadyIngested(existing_count) == existing_count > 0

\* _embed_and_store on the collection docs: the collection it leaves and the
\* count it returns, or the CustomException it raises
embed_and_store(docs, facts, fault) ==
    LET existing_count == Len(docs) IN
    IF fault = "count_error"
    THEN [kind |-> fault, store |-> docs, document_count |-> 0]
    ELSE IF AlreadyIngested(existing_count)
    THEN [kind |-> "skipped", store |-> docs, document_count |-> existing_count]
    ELSE IF fault = "add_error"
    THEN [kind |-> fault, store |-> docs, document_count |-> 0]
    ELSE [kind |-> "stored", store |-> docs \o facts, document_count |-> Len(facts)]

\* DataIngestionComponents.run on the collection docs
DataIngestionRun(docs, facts, fault) ==
    IF fault \in {"csv_error", "model_error", "chromadb_error"}
    THEN [kind |-> fault, store |-> docs, document_count |-> 0]
    ELSE embed_and_store(docs, facts, fault)

\* a startup that goes on whatever the ingestion did
IngestionAlwaysReturned(kind) == TRUE

\* ingestion_pipeline.run() returned a DataIngestionEntity
IngestionReturned(kind) == kind \in {"skipped", "stored"}

----------------------------------------------------------------------------
(* main.py: lifespan and check_fact around the one FactCheckingPipeline *)

\* texts of the requests to POST /check
RequestTexts == Texts \cup {<<>>, <<" ">>}

\* what the classifier may do under the application
AppClassifierOutcomes(detector) ==
    {ClassifierFailed("infer_error"),
     ClassifierOutput(<<ClassifierItem(TRUE, TRUE, TRUE, LabelCFS, TRUE, Num(One))>>),
     ClassifierOutput(<<ClassifierItem(TRUE, TRUE, TRUE, <<"N","F","S">>, TRUE,
                                       Num(Zero))>>)}
    \cup (IF detector = "None" THEN {ClassifierFailed("load_error")} ELSE {})

\* what the extraction model may answer under the application
AppExtOutcomes ==
    {LLMError(m) : m \in LLMErrorMessages}
    \cup {LLMResponse(ArrayText(<<Quoted(<<"b">>)>>)), LLMResponse(ArrayText(<<>>))}

\* what the verification model may answer under the application
AppVerOutcomes ==
    {LLMError(m) : m \in LLMErrorMessages}
    \cup {LLMResponse(ObjectText(<<Member(KeyVerdict, Quoted(StrTrue)),
                                   Member(KeyReasoning, Quoted(<<"o","k">>))>>)),
          LLMResponse(ObjectText(<<Member(KeyVerdict, WordTrue)>>))}

\* what the embedding model and the store may do under the application: a
\* failure, or the nearest documents at the distances 1/2, 1, ...
AppStoreOutcomes(model, collection, docs) ==
    {StoreFailed("encode_error"), StoreFailed("query_error")}
    \cup (IF model = "None" THEN {StoreFailed("embedding_load_error")} ELSE {})
    \cup (IF collection = "None" THEN {StoreFailed("chromadb_load_error")} ELSE {})
    \cup {StoreHits([i \in 1..Min(TOP_K_RESULTS, Len(docs)) |->
                       [document |-> docs[i].document, distance |-> Rat(i, 2),
                        metadata |-> docs[i].metadata]])}

\* a handler that answers a failed run with an empty result
ErrorAsResult(status) == [status |-> 200, body |-> NoEntity]

\* check_fact's except branch: HTTPException(500)
ErrorResponse(status) == HTTPException(status)

\* a readiness test that is never true
NeverNotReady(state) == FALSE

\* not app_state["is_ready"]
NotReady(state) == ~state.is_ready

\* an emptiness test that does not trim
EmptyUntrimmed(claim) == claim = <<>>

\* not request.claim or len(request.claim.strip()) == 0
EmptyClaim(claim) == claim = <<>> \/ Len(Strip(claim)) = 0

\* lifespan up to its health check: the ingestion, the construction of the
\* FactCheckingPipeline and the entry into run; a failed ingestion leaves
\* through the except branch to the yield
LifespanStartup ==
    /\ lifespan = "NotStarted"
    /\ \E n \in 0..MaxDocs, fault \in IngestionFaults :
         LET r == DataIngestionRun(store, Corpus(n), fault) IN
         /\ store' = r.store
         /\ ingestion' = [kind |-> r.kind, corpus |-> n, before |-> store,
                          document_count |-> r.document_count]
         /\ IF IngestionReturned(r.kind)
            THEN /\ app_state' = [app_state EXCEPT
                                    !.document_count = r.document_count,
                                    !.fact_checker = "FactCheckingPipeline"]
                 /\ CallRun(HealthCheckQuery)
                 /\ caller' = "lifespan"
                 /\ lifespan' = "Probing"
            ELSE /\ app_state' = [app_state EXCEPT !.is_ready = FALSE]
                 /\ lifespan' = "Yielded"
                 /\ UNCHANGED <<pipeline_vars, caller>>
    /\ UNCHANGED <<request, http_response, conc_vars>>

\* a startup that declares the service ready whatever the probe did
ReadyAlways(position) == TRUE

\* lifespan after its probe: is_ready = True when run returned, False in the
\* except branch
ReadyAfter(position) == position \in Returned

\* what the caller of run does when the step ends run: lifespan sets is_ready
\* and yields, check_fact answers 200 or 500
RunEnds ==
    IF pc' \notin Returned \cup {"Raised"} THEN UNCHANGED app_vars
    ELSE IF caller = "lifespan"
    THEN /\ app_state' = [app_state EXCEPT !.is_ready = ReadyAfter(pc')]
         /\ lifespan' = "Yielded"
         /\ UNCHANGED <<caller, request, http_response, ingestion>>
    ELSE /\ http_response' = IF pc' \in Returned THEN FactCheckResponse(result')
                             ELSE ErrorResponse(500)
         /\ UNCHANGED <<app_state, lifespan, caller, request, ingestion>>

ServeDetect ==
    /\ DetectStep(AppClassifierOutcomes(claim_detector))
    /\ RunEnds
    /\ UNCHANGED conc_vars

ServeExtract == ExtractStep(AppExtOutcomes) /\ RunEnds /\ UNCHANGED conc_vars

ServeRetrieve ==
    /\ RetrieveStep(AppStoreOutcomes(embedding_model, chroma_collection, store))
    /\ RunEnds
    /\ UNCHANGED conc_vars

ServeVerify == VerifyStep(AppVerOutcomes) /\ RunEnds /\ UNCHANGED conc_vars

\* check_fact on one request, up to its answer or its entry into run.  The
\* server hands requests to check_fact after lifespan has yielded; before
\* lifespan has run, check_fact is reached only where the application is used
\* without its lifespan.
CheckFact ==
    /\ lifespan \in {"NotStarted", "Yielded"}
    /\ pc \in Idle
    /\ \E text \in RequestTexts :
         /\ request' = FactCheckRequest(text)
         /\ IF NotReady(app_state)
            THEN /\ http_response' = HTTPException(503)
                 /\ UNCHANGED <<pipeline_vars, caller>>
            ELSE IF EmptyClaim(text)
            THEN /\ http_response' = HTTPException(400)
                 /\ UNCHANGED <<pipeline_vars, caller>>
            ELSE IF app_state.fact_checker = "None"        \* None.run: AttributeError
            THEN /\ http_response' = ErrorResponse(500)
                 /\ UNCHANGED <<pipeline_vars, caller>>
            ELSE /\ CallRun(text)
                 /\ caller' = "check_fact"
                 /\ http_response' = NoResponse
    /\ UNCHANGED <<store, app_state, lifespan, ingestion, conc_vars>>

\* the process ends and a new one starts on the same persistent store
ProcessRestart ==
    /\ lifespan = "Yielded"
    /\ pc \in Idle
    /\ claim_detector' = "None"
    /\ embedding_model' = "None"
    /\ chroma_collection' = "None"
    /\ pc' = "Start"
    /\ input_text' = <<>>
    /\ detection' = NoDetection
    /\ claims' = <<>>
    /\ main_claim' = JStr(<<>>)
    /\ retrieval_result' = NoRetrieval
    /\ verification' = NoVerification
    /\ result' = NoEntity
    /\ classifier_out' = NoClassifier
    /\ llm_out' = NoLLM
    /\ store_out' = NoStore
    /\ calls' = NoCalls
    /\ app_state' = AppStateInit
    /\ lifespan' = "NotStarted"
    /\ caller' = "none"
    /\ request' = NoRequest
    /\ http_response' = NoResponse
    /\ ingestion' = NoIngestion
    /\ UNCHANGED <<store, conc_vars>>

NextApp ==
    \/ LifespanStartup
    \/ ServeDetect
    \/ ServeExtract
    \/ ServeRetrieve
    \/ ServeVerify
    \/ CheckFact
    \/ ProcessRestart

SpecApp == Init /\ [][NextApp]_vars

----------------------------------------------------------------------------
(* The lazy loads of FactCheckingComponents under concurrent requests.      *)
(* check_fact is a plain def: the server runs each request on a thread of   *)
(* its pool, and the threads share the one FactCheckingComponents.  A step  *)
(* is one test of a field, one load, or one call of a loaded resource.      *)

\* the startup of this process has ended ready on a store of one document
ReadyAfterProbe ==
    /\ store = StoreOf(1)
    /\ input_text = HealthCheckQuery
    /\ app_state = [fact_checker |-> "FactCheckingPipeline", document_count |-> 1,
                    is_ready |-> TRUE]
    /\ lifespan = "Yielded"
    /\ caller = "lifespan"
    /\ request = NoRequest
    /\ http_response = NoResponse
    /\ ingestion = [kind |-> "skipped", corpus |-> 1, before |-> store,
                    document_count |-> 1]
    /\ workers = [w \in Workers |-> "Idle"]

\* the probe was found not claim-worthy: only the classifier is loaded
ProbeShortCircuited ==
    /\ claim_detector = "loaded"
    /\ embedding_model = "None"
    /\ chroma_collection = "None"
    /\ loads = [r \in Resources |-> IF r = "claim_detector" THEN 1 ELSE 0]
    /\ classifier_out =
         ClassifierOutput(<<ClassifierItem(TRUE, TRUE, TRUE, <<"N","F","S">>, TRUE,
                                           Num(Zero))>>)
    /\ detection = detect_claim(classifier_out)
    /\ pc = "ShortCircuitUnverifiable"
    /\ claims = <<>>
    /\ main_claim = JStr(<<>>)
    /\ retrieval_result = NoRetrieval
    /\ verification = NoVerification
    /\ result = ShortCircuitEntity(input_text, detection.claim_score)
    /\ llm_out = NoLLM
    /\ store_out = NoStore
    /\ calls = [NoCalls EXCEPT !.detect_claim = 1]

\* the probe ran to Done, with both LLM calls failing; the classifier loaded
\* or failed to load
ProbeCompleted ==
    /\ claim_detector \in {"None", "loaded"}
    /\ embedding_model = "loaded"
    /\ chroma_collection = "loaded"
    /\ loads = [r \in Resources |-> 1]
    /\ classifier_out = NoClassifier
    /\ detection = DetectDefault
    /\ pc = "Done"
    /\ llm_out = LLMError(<<"t","i","m","e","o","u","t">>)
    /\ claims = extract_claims(input_text, llm_out)
    /\ main_claim = MainClaim(claims, input_text)
    /\ retrieval_result =
         RetrievalEntity(main_claim.v,
                         <<[document |-> store[1].document, distance |-> Half,
                            metadata |-> store[1].metadata]>>)
    /\ verification =
         verify_claim(main_claim.v, retrieval_result.retrieved_documents, llm_out)
    /\ result = FactCheckEntity(input_text, main_claim.v,
                                StrField(verification.verdict),
                                retrieval_result.retrieved_documents,
                                StrField(verification.reasoning),
                                ConfidenceOf(retrieval_result.similarity_scores))
    /\ store_out = NoStore
    /\ calls = [detect_claim |-> 1, extract_claims |-> 1, retrieve_facts |-> 1,
                verify_claim |-> 1, call_ollama |-> 2]

InitConc == ReadyAfterProbe /\ (ProbeShortCircuited \/ ProbeCompleted)

\* worker w moves to position p
MoveTo(w, p) == workers' = [workers EXCEPT ![w] = p]

\* one more load of resource r has been started
LoadStarted(r) == loads' = [loads EXCEPT ![r] = Min(@ + 1, MaxLoads)]

\* `if self.<field> is None`
IsNone(field) == field = "None"

\* check_fact admits a request and a thread enters run
WorkerRequest ==
    \E w \in Workers :
        /\ workers[w] = "Idle"
        /\ ~NotReady(app_state)
        /\ MoveTo(w, "DetectCheck")
        /\ UNCHANGED <<pipeline_vars, store, app_vars, loads>>

\* detect_claim: if self.claim_detector is None
WorkerDetectCheck ==
    \E w \in Workers :
        /\ workers[w] = "DetectCheck"
        /\ IF IsNone(claim_detector)
           THEN MoveTo(w, "claim_detector") /\ LoadStarted("claim_detector")
           ELSE MoveTo(w, "Classifying") /\ UNCHANGED loads
        /\ UNCHANGED <<pipeline_vars, store, app_vars>>

\* _load_claim_detector returns, or raises into detect_claim's except branch,
\* which answers (True, 0.5)
WorkerDetectorLoad ==
    \E w \in Workers, ok \in BOOLEAN :
        /\ workers[w] = "claim_detector"
        /\ claim_detector' = IF ok THEN "loaded" ELSE claim_detector
        /\ MoveTo(w, IF ok THEN "Classifying" ELSE "Extracting")
        /\ UNCHANGED <<embedding_model, chroma_collection, pc, input_text, detection,
                       claims, main_claim, retrieval_result, verification, result,
                       classifier_out, llm_out, store_out, calls, store, app_vars,
                       loads>>

\* self.claim_detector(text) and the reading of its result: claim-worthy (also
\* by the except branch) or not
WorkerClassify ==
    \E w \in Workers, is_claim_worthy \in BOOLEAN :
        /\ workers[w] = "Classifying"
        /\ MoveTo(w, IF is_claim_worthy THEN "Extracting" ELSE "Idle")
        /\ UNCHANGED <<pipeline_vars, store, app_vars, loads>>

\* extract_claims
WorkerExtract ==
    \E w \in Workers :
        /\ workers[w] = "Extracting"
        /\ MoveTo(w, "EmbeddingCheck")
        /\ UNCHANGED <<pipeline_vars, store, app_vars, loads>>

\* retrieve_facts: if self.embedding_model is None
WorkerEmbeddingCheck ==
    \E w \in Workers :
        /\ workers[w] = "EmbeddingCheck"
        /\ IF IsNone(embedding_model)
           THEN MoveTo(w, "embedding_model") /\ LoadStarted("embedding_model")
           ELSE MoveTo(w, "CollectionCheck") /\ UNCHANGED loads
        /\ UNCHANGED <<pipeline_vars, store, app_vars>>

\* _load_embedding_model returns, or raises out of run
WorkerEmbeddingLoad ==
    \E w \in Workers, ok \in BOOLEAN :
        /\ workers[w] = "embedding_model"
        /\ embedding_model' = IF ok THEN "loaded" ELSE embedding_model
        /\ MoveTo(w, IF ok THEN "CollectionCheck" ELSE "Idle")
        /\ UNCHANGED <<claim_detector, chroma_collection, pc, input_text, detection,
                       claims, main_claim, retrieval_result, verification, result,
                       classifier_out, llm_out, store_out, calls, store, app_vars,
                       loads>>

\* retrieve_facts: if self.chroma_collection is None
WorkerCollectionCheck ==
    \E w \in Workers :
        /\ workers[w] = "CollectionCheck"
        /\ IF IsNone(chroma_collection)
           THEN MoveTo(w, "chroma_collection") /\ LoadStarted("chroma_collection")
           ELSE MoveTo(w, "Querying") /\ UNCHANGED loads
        /\ UNCHANGED <<pipeline_vars, store, app_vars>>

\* _load_chromadb returns, or raises out of run: before the field is assigned
\* (the client, get_collection) or after it (count() in the log line)
WorkerCollectionLoad ==
    \E w \in Workers, outcome \in {"ok", "raised", "raised_after_assignment"} :
        /\ workers[w] = "chroma_collection"
        /\ chroma_collection' = IF outcome = "raised" THEN chroma_collection
                                ELSE "loaded"
        /\ MoveTo(w, IF outcome = "ok" THEN "Querying" ELSE "Idle")
        /\ UNCHANGED <<claim_detector, embedding_model, pc, input_text, detection,
                       claims, main_claim, retrieval_result, verification, result,
                       classifier_out, llm_out, store_out, calls, store, app_vars,
                       loads>>

\* encode and query, returning or raising out of run
WorkerQuery ==
    \E w \in Workers, ok \in BOOLEAN :
        /\ workers[w] = "Querying"
        /\ MoveTo(w, IF ok THEN "Verifying" ELSE "Idle")
        /\ UNCHANGED <<pipeline_vars, store, app_vars, loads>>

\* verify_claim and the return of run
WorkerVerify ==
    \E w \in Workers :
        /\ workers[w] = "Verifying"
        /\ MoveTo(w, "Idle")
        /\ UNCHANGED <<pipeline_vars, store, app_vars, loads>>

NextConc ==
    \/ WorkerRequest
    \/ WorkerDetectCheck
    \/ WorkerDetectorLoad
    \/ WorkerClassify
    \/ WorkerExtract
    \/ WorkerEmbeddingCheck
    \/ WorkerEmbeddingLoad
    \/ WorkerCollectionCheck
    \/ WorkerCollectionLoad
    \/ WorkerQuery
    \/ WorkerVerify

SpecConc == InitConc /\ [][NextConc]_vars

----------------------------------------------------------------------------
(* Vocabulary of the properties *)

\* the substring the regular expression locates: from the first opening
\* character to the first closing character after it
Located(s, open, close) ==
    {SubSeq(s, i, j) : i \in {i \in 1..Len(s) :
                                 /\ s[i] = open
                                 /\ \A h \in 1..(i - 1) : s[h] # open},
                       j \in {j \in 1..Len(s) :
                                 /\ s[j] = close
                                 /\ \E i \in 1..(j - 1) :
                                      /\ s[i] = open
                                      /\ \A h \in 1..(i - 1) : s[h] # open
                                      /\ \A h \in (i + 1)..(j - 1) : s[h] # close}}

\* the response holds no located substring that is valid JSON
NoValidJson(s, open, close) == \A g \in Located(s, open, close) : ~JsonLoads(g).ok

\* w, written in lower case, occurs in s in some mix of cases
OccursAnyCase(s, w) ==
    \E i \in 1..(Len(s) - Len(w) + 1) :
        \A k \in 1..Len(w) : s[i + k - 1] \in {w[k], Upper(w)[k]}

\* the text decodes to a non-empty JSON array of strings
IsClaimArray(t) ==
    LET parsed == JsonLoads(t) IN
    /\ parsed.ok
    /\ parsed.val.t = "arr"
    /\ parsed.val.v # <<>>
    /\ \A i \in 1..Len(parsed.val.v) : parsed.val.v[i].t = "str"

\* t is the text of a JSON object
IsObject(t) ==
    LET parsed == JsonLoads(t) IN parsed.ok /\ parsed.val.t = "obj"

\* the classifier gave no result: load or inference raised
ClassifierRaised(c) == c.kind \in {"load_error", "infer_error"}

\* the classifier's output is not a list holding a dict with a str 'label' and
\* a numeric 'score'
OutputMalformed(c) ==
    /\ c.kind = "output"
    /\ \/ c.items = <<>>
       \/ ~c.items[1].dict
       \/ ~c.items[1].has_label
       \/ ~c.items[1].label_str
       \/ ~c.items[1].has_score
       \/ ~c.items[1].score.num

\* reading the classifier's output raises: no first element, an element that
\* is no dict, a label that is no str, or a score that is no number under a
\* label without CFS
ReadingRaises(c) ==
    /\ c.kind = "output"
    /\ \/ c.items = <<>>
       \/ ~c.items[1].dict
       \/ c.items[1].has_label /\ ~c.items[1].label_str
       \/ /\ c.items[1].has_score /\ ~c.items[1].score.num
          /\ ~(c.items[1].has_label /\ OccursAnyCase(c.items[1].label, <<"c","f","s">>))

\* c is the largest similarity score of the retrieval when it retrieved a
\* document, and 0.0 when it retrieved none
DerivedFromRetrieval(c, retrieval) ==
    LET scores == retrieval.similarity_scores IN
    IF Len(retrieval.retrieved_documents) >= 1
    THEN /\ \E i \in 1..Len(scores) : scores[i] = c
         /\ \A i \in 1..Len(scores) : RatLeq(scores[i], c)
    ELSE c = Zero

----------------------------------------------------------------------------
(* Properties *)

\* C1: whenever detect_claim reports (false, s), run returns verdict
\* Unverifiable, no evidence, the fixed reasoning and confidence_score = s,
\* and this run has invoked neither the extractor, nor the retriever, nor the
\* verifier, nor the LLM.
C1_ShortCircuit ==
    (detection.set /\ ~detection.is_claim_worthy) =>
        /\ pc = "ShortCircuitUnverifiable"
        /\ result.set
        /\ result.original_input = input_text
        /\ result.verdict = StrUnverifiable
        /\ result.evidence = <<>>
        /\ result.reasoning = NotClaimWorthyReasoning
        /\ result.confidence_score = detection.claim_score.v
        /\ calls.detect_claim = 1
        /\ calls.extract_claims = 0
        /\ calls.retrieve_facts = 0
        /\ calls.verify_claim = 0
        /\ calls.call_ollama = 0

C1_Witness ==
    /\ pc = "ShortCircuitUnverifiable"
    /\ ~detection.is_claim_worthy
    /\ result.set
    /\ RatLess(Zero, result.confidence_score)

\* C2: the verdict of every result run returns is one of True, False,
\* Unverifiable, whatever the verification model answered.
C2_VerdictDomain ==
    result.set => result.verdict \in {StrTrue, StrFalse, StrUnverifiable}

\* C3: the confidence_score of every result run returns lies in [0, 1].
C3_ConfidenceBound ==
    result.set => /\ RatLeq(Zero, result.confidence_score)
                  /\ RatLeq(result.confidence_score, One)

C3_Witness ==
    /\ pc = "Done"
    /\ result.set
    /\ Len(result.evidence) = 2
    /\ RatLess(Zero, result.confidence_score)
    /\ RatLess(result.confidence_score, One)

\* C4: on the normal path confidence_score is the largest similarity score of
\* the RetrievalEntity when a document was retrieved and 0.0 when none was,
\* under every verdict and every answer of the verifier.
C4_ConfidenceIsMaxSimilarity ==
    pc = "Done" =>
        LET scores == retrieval_result.similarity_scores IN
        /\ DerivedFromRetrieval(result.confidence_score, retrieval_result)
        /\ Len(scores) = Len(retrieval_result.retrieved_documents)

C4_Witness ==
    /\ pc = "Done"
    /\ Len(retrieval_result.similarity_scores) = 2
    /\ RatLess(retrieval_result.similarity_scores[2],
               retrieval_result.similarity_scores[1])
    /\ result.verdict = StrFalse
    /\ result.confidence_score = retrieval_result.similarity_scores[1]

\* C5: the list extract_claims returns is never empty.
C5_NeverEmpty ==
    calls.extract_claims > 0 => claims # <<>>

\* C6: when the extraction call fails, or the response holds no bracketed
\* substring, or the located bracketed substring is no valid JSON,
\* extract_claims returns the one-element list [text] of the unmodified input.
C6_FallbackToOriginalText ==
    (pc = "Retrieving"
        /\ (llm_out.kind = "error" \/ NoValidJson(llm_out.text, "[", "]")))
    => claims = <<JStr(input_text)>>

C6_Witness ==
    /\ pc = "Retrieving"
    /\ llm_out.kind = "response"
    /\ Located(llm_out.text, "[", "]") # {}
    /\ NoValidJson(llm_out.text, "[", "]")
    /\ claims = <<JStr(input_text)>>

\* C7: when the response holds a well-formed JSON array of claim strings
\* inside any prose, extract_claims returns exactly that array, also when a
\* claim or the prose holds a bracket.
C7_ReturnsWrappedArray ==
    (pc = "Retrieving" /\ llm_out.kind = "response") =>
        \A i, j \in 1..Len(llm_out.text) :
            (i <= j /\ IsClaimArray(SubSeq(llm_out.text, i, j)))
            => claims = JsonLoads(SubSeq(llm_out.text, i, j)).val.v

\* C8: when the verifier's response holds no brace-delimited substring that
\* is valid JSON, verify_claim returns True if the response holds "true" and
\* not "false" in any case, else False if it holds "false", else
\* Unverifiable, and the reasoning is the response unchanged.
C8_KeywordFallback ==
    (verification.set /\ llm_out.kind = "response"
        /\ NoValidJson(llm_out.text, "{", "}"))
    => /\ verification.reasoning = JStr(llm_out.text)
       /\ verification.verdict =
            JStr(IF OccursAnyCase(llm_out.text, WordTrue)
                    /\ ~OccursAnyCase(llm_out.text, WordFalse)
                 THEN StrTrue
                 ELSE IF OccursAnyCase(llm_out.text, WordFalse) THEN StrFalse
                 ELSE StrUnverifiable)

C8_Witness ==
    /\ verification.set
    /\ llm_out.kind = "response"
    /\ Located(llm_out.text, "{", "}") # {}
    /\ NoValidJson(llm_out.text, "{", "}")
    /\ OccursAnyCase(llm_out.text, WordTrue)
    /\ ~Contains(llm_out.text, WordTrue)
    /\ verification.verdict = JStr(StrTrue)

\* C9: when the verification call fails, verify_claim returns Unverifiable
\* with the reasoning "Error during verification: <message>", and run returns
\* a complete result with the retrieved evidence and the confidence derived
\* from the retrieval.
C9_VerifierFailureAbsorbed ==
    (verification.set /\ llm_out.kind = "error") =>
        /\ verification.verdict = JStr(StrUnverifiable)
        /\ verification.reasoning =
             JStr(ErrorDuringVerification \o CustomExceptionStr(llm_out.text))
        /\ pc = "Done"
        /\ result.set
        /\ result.original_input = input_text
        /\ result.claim = main_claim.v
        /\ result.verdict = StrUnverifiable
        /\ result.reasoning = verification.reasoning.v
        /\ result.evidence = retrieval_result.retrieved_documents
        /\ DerivedFromRetrieval(result.confidence_score, retrieval_result)

C9_Witness ==
    /\ verification.set
    /\ llm_out.kind = "error"
    /\ pc = "Done"
    /\ Len(result.evidence) = 2
    /\ RatLess(Zero, result.confidence_score)

\* C10: when the classifier is unavailable (the model fails to load,
\* inference raises, or the output is malformed), detect_claim returns
\* (True, 0.5) and run goes on to extraction, never to the short-circuit
\* result.
C10_FailOpenOnUnavailable ==
    (detection.set /\ (ClassifierRaised(classifier_out)
                         \/ OutputMalformed(classifier_out)))
    => /\ detection = DetectDefault
       /\ pc = "Extracting"

\* C10 as amended: when the model fails to load, inference raises or reading
\* the output raises, detect_claim returns (True, 0.5) and run goes on to
\* extraction; an output dict that only lacks 'label' and 'score' raises
\* nothing, is read as label '' and score 0.0, and short-circuits.
C10_FailOpenWhenReadingRaises ==
    /\ (detection.set /\ (ClassifierRaised(classifier_out)
                            \/ ReadingRaises(classifier_out)))
       => /\ detection = DetectDefault
          /\ pc = "Extracting"
          /\ ~result.set
    /\ (detection.set /\ classifier_out.kind = "output"
           /\ classifier_out.items # <<>>
           /\ classifier_out.items[1].dict
           /\ ~classifier_out.items[1].has_label
           /\ ~classifier_out.items[1].has_score)
       => /\ ~detection.is_claim_worthy
          /\ detection.claim_score = Num(Zero)
          /\ pc = "ShortCircuitUnverifiable"

C10_Witness ==
    /\ detection.set
    /\ classifier_out.kind = "load_error"
    /\ claim_detector = "None"
    /\ pc = "Extracting"

\* the classifier returned a list whose first element is a dict with a str
\* 'label' and a numeric 'score'
OutputWellFormed(c) ==
    /\ c.kind = "output"
    /\ c.items # <<>>
    /\ c.items[1].dict
    /\ c.items[1].has_label /\ c.items[1].label_str
    /\ c.items[1].has_score /\ c.items[1].score.num

\* C11: for every classifier output (label, score), detect_claim reports
\* claim-worthy exactly when the label holds "CFS" in any case or the score
\* is above 0.5 (a score of exactly 0.5 under a label without CFS is not
\* worthy), and the score it returns is the classifier's score unchanged.
C11_DetectPolicy ==
    (detection.set /\ OutputWellFormed(classifier_out)) =>
        LET label == classifier_out.items[1].label
            score == classifier_out.items[1].score
        IN  /\ detection.is_claim_worthy <=>
                  (OccursAnyCase(label, <<"c","f","s">>) \/ RatLess(Half, score.v))
            /\ (score.v = Half /\ ~OccursAnyCase(label, <<"c","f","s">>))
                  => ~detection.is_claim_worthy
            /\ detection.claim_score = score

C11_Witness ==
    /\ detection.set
    /\ OutputWellFormed(classifier_out)
    /\ classifier_out.items[1].score.v = Half
    /\ ~OccursAnyCase(classifier_out.items[1].label, <<"c","f","s">>)
    /\ ~detection.is_claim_worthy
    /\ pc = "ShortCircuitUnverifiable"

\* C12: indexing is idempotent.  A run of the ingestion that finds the store
\* populated adds, changes and removes nothing and returns the existing count
\* as document_count, whatever corpus it was given; a run that stores does so
\* only into an empty store and leaves exactly its corpus there, so that any
\* number of runs leaves the count and the contents of the first one.
C12_IdempotentIndexing ==
    /\ ingestion.before # <<>> => store = ingestion.before
    /\ (ingestion.before # <<>> /\ ingestion.kind \in {"stored", "skipped"})
       => /\ ingestion.kind = "skipped"
          /\ ingestion.document_count = Len(ingestion.before)
          /\ app_state.document_count = Len(store)
    /\ ingestion.kind = "stored"
       => /\ ingestion.before = <<>>
          /\ store = Corpus(ingestion.corpus)
          /\ ingestion.document_count = Len(store)
          /\ app_state.document_count = Len(store)

C12_Witness ==
    /\ ingestion.kind = "skipped"
    /\ ingestion.corpus # Len(store)
    /\ Len(store) = MaxDocs
    /\ store = ingestion.before
    /\ app_state.document_count = MaxDocs

\* retrieve_facts raised in this run: loading the embedding model, opening the
\* collection, embedding the claim or querying the store failed
RetrievalFailed == store_out.kind \notin {"none", "ok"}

\* C13: when embedding the claim or querying the store fails, or the lazy
\* load of the embedding model or of the collection fails, run raises: no
\* FactCheckEntity is returned, the verifier is not invoked for that request,
\* and check_fact answers the request with HTTP 500.
C13_RetrievalFailureIsFatal ==
    RetrievalFailed =>
        /\ pc = "Raised"
        /\ ~result.set
        /\ ~verification.set
        /\ calls.retrieve_facts = 1
        /\ calls.verify_claim = 0
        /\ (caller = "check_fact" /\ request.claim = input_text)
              => http_response = HTTPException(500)
        /\ caller = "lifespan" => ~app_state.is_ready

C13_Witness ==
    /\ store_out.kind = "chromadb_load_error"
    /\ embedding_model = "loaded"
    /\ caller = "check_fact"
    /\ request.claim = input_text
    /\ http_response.status = 500

\* a step of check_fact: the only steps that start outside a run and leave
\* lifespan where it is
CheckFactStep ==
    /\ lifespan \in {"NotStarted", "Yielded"}
    /\ pc \in Idle
    /\ lifespan' = lifespan
    /\ request'.set

\* C14: a check request that arrives while the service is not ready (startup
\* not run to its end, or failed) is answered with HTTP 503; run is not
\* invoked for it, no classifier, LLM or store call is made, and no state of
\* the application or of the pipeline changes.
C14_NotReadyRejected ==
    [][(CheckFactStep /\ ~app_state.is_ready)
         => /\ http_response' = HTTPException(503)
            /\ UNCHANGED <<pipeline_vars, store, app_state, caller, ingestion>>]_vars

C14_Witness ==
    /\ http_response.status = 503
    /\ request.set
    /\ lifespan = "Yielded"
    /\ pc = "Raised"
    /\ caller = "lifespan"
    /\ ~app_state.is_ready

\* C15: whenever the service is ready to admit check requests, the ingestion
\* has populated the index or found it populated, and the claim classifier,
\* the embedding model and the store handle of the pipeline are all loaded.
C15_ReadyMeansInitialized ==
    app_state.is_ready =>
        /\ ingestion.kind \in {"stored", "skipped"}
        /\ app_state.fact_checker = "FactCheckingPipeline"
        /\ claim_detector = "loaded"
        /\ embedding_model = "loaded"
        /\ chroma_collection = "loaded"

\* the text is empty once its leading and trailing whitespace is removed
EmptyAfterTrimming(text) == \A i \in 1..Len(text) : text[i] \in StripChars

\* C16: when the service is ready, a check request whose claim is empty after
\* trimming is answered with HTTP 400 before the pipeline is entered: no
\* stage (classifier, extractor, retriever, verifier) is invoked for it.
C16_EmptyClaimRejected ==
    [][(CheckFactStep /\ app_state.is_ready /\ EmptyAfterTrimming(request'.claim))
         => /\ http_response' = HTTPException(400)
            /\ UNCHANGED <<pipeline_vars, store, app_state, caller, ingestion>>]_vars

C16_Witness ==
    /\ http_response.status = 400
    /\ request.claim = <<" ">>
    /\ app_state.is_ready
    /\ pc \in Idle

\* a query-time component has run in this process
QueryTimeRan == pc # "Start"

\* the indexing step of this process has stored the corpus, or has been
\* skipped on a populated store
IndexingDone == ingestion.kind \in {"stored", "skipped"}

\* a stage of run is between its entry and its return
RunInProgress == pc \in {"Detecting", "Extracting", "Retrieving", "Verifying"}

\* C17: initialization is a strict barrier.  No query-time component
\* (classifier, extractor, retriever, verifier) runs for the probe or for any
\* request before the indexing step of the process has completed or has been
\* skipped on a populated store, and indexing runs only while no run of the
\* pipeline is in progress.
C17_InitializationBarrier ==
    /\ [](QueryTimeRan => IndexingDone)
    /\ [][(ingestion' # ingestion \/ store' # store)
            => (~RunInProgress /\ (ingestion'.kind # "none" => ~QueryTimeRan))]_vars

C17_Witness ==
    /\ pc = "Verifying"
    /\ caller = "check_fact"
    /\ ingestion.kind = "stored"
    /\ store # <<>>
    /\ calls.retrieve_facts = 1

\* the fields of a complete result
ResultFields ==
    {"set", "original_input", "claim", "verdict", "evidence", "reasoning",
     "confidence_score"}

C19_DegradeNeverFail ==
    (retrieval_result.set /\ calls.verify_claim = 1) =>
        /\ pc = "Done"
        /\ result.set
        /\ DOMAIN result = ResultFields

\* C20: the transform sim(d) = 1 / (1 + d) of retrieve_facts is strictly
\* decreasing on non-negative distances (d1 < d2 implies sim(d1) > sim(d2)),
\* maps d = 0 to exactly 1.0, and yields a value in (0, 1].
C20_StrictlyDecreasing ==
    retrieval_result.set =>
        LET hits   == store_out.hits
            scores == retrieval_result.similarity_scores
        IN  /\ \A i, j \in 1..Len(hits) :
                  RatLess(hits[i].distance, hits[j].distance)
                  => RatLess(scores[j], scores[i])
            /\ \A i \in 1..Len(hits) :
                  /\ hits[i].distance = Zero => scores[i] = One
                  /\ RatLess(Zero, scores[i]) /\ RatLeq(scores[i], One)

\* C20 as amended: in float arithmetic the transform is non-increasing
\* (d1 < d2 implies sim(d1) >= sim(d2)): a distance below the spacing of the
\* floats at 1 is absorbed by 1 + d and maps to 1.0 like d = 0.  It maps
\* d = 0 to exactly 1.0 and yields a value in (0, 1].
C20_NonIncreasing ==
    retrieval_result.set =>
        LET hits   == store_out.hits
            scores == retrieval_result.similarity_scores
        IN  /\ \A i, j \in 1..Len(hits) :
                  RatLess(hits[i].distance, hits[j].distance)
                  => RatLeq(scores[j], scores[i])
            /\ \A i \in 1..Len(hits) :
                  /\ hits[i].distance = Zero => scores[i] = One
                  /\ RatLess(Zero, scores[i]) /\ RatLeq(scores[i], One)

C20_Witness ==
    /\ retrieval_result.set
    /\ store_out.hits[1].distance = Zero
    /\ RatLess(One, store_out.hits[2].distance)
    /\ retrieval_result.similarity_scores[1] = One
    /\ RatLess(retrieval_result.similarity_scores[2], Half)

\* the moves of run between its positions: Start or a finished run to
\* Detecting, then the short-circuit or Extracting, Retrieving, Verifying and
\* Done; Raised is the exit by exception
StageOrder ==
    {<<"Start", "Detecting">>, <<"ShortCircuitUnverifiable", "Detecting">>,
     <<"Done", "Detecting">>, <<"Raised", "Detecting">>,
     <<"Detecting", "ShortCircuitUnverifiable">>, <<"Detecting", "Extracting">>,
     <<"Extracting", "Retrieving">>,
     <<"Retrieving", "Verifying">>, <<"Retrieving", "Raised">>,
     <<"Verifying", "Done">>, <<"Verifying", "Raised">>}

\* C21: within one run the stages are invoked only in the order Detecting,
\* Extracting, Retrieving, Verifying, Done; each stage is invoked at most once
\* (no retries); retrieval does not start before extraction has returned,
\* verification not before retrieval has returned, and a result is returned
\* only from Done or from the short-circuit state.
C21_StageOrder ==
    /\ [](/\ calls.detect_claim <= 1 /\ calls.extract_claims <= 1
          /\ calls.retrieve_facts <= 1 /\ calls.verify_claim <= 1
          /\ calls.call_ollama <= 2
          /\ calls.extract_claims = 1 => (detection.set /\ detection.is_claim_worthy)
          /\ (pc = "Retrieving" \/ calls.retrieve_facts = 1)
                => (calls.extract_claims = 1 /\ pc # "Extracting")
          /\ (pc = "Verifying" \/ calls.verify_claim = 1)
                => (calls.retrieve_facts = 1 /\ retrieval_result.set)
          /\ result.set <=> pc \in {"Done", "ShortCircuitUnverifiable"}
          /\ pc = "Done" => calls.verify_claim = 1)
    /\ [][pc' # pc => <<pc, pc'>> \in StageOrder]_vars

C21_Witness ==
    /\ pc = "Done"
    /\ calls = [detect_claim |-> 1, extract_claims |-> 1, retrieve_facts |-> 1,
                verify_claim |-> 1, call_ollama |-> 2]
    /\ llm_out.kind = "response"
    /\ result.set

\* C22: the classifier, the embedding model and the store handle are each
\* loaded at most once in the life of the process: under every interleaving
\* of concurrent requests, also while a load is in progress and after a load
\* has failed, no second load of a resource is started, and a thread uses a
\* resource only once it is loaded.
C22_LoadedAtMostOnce ==
    /\ \A r \in Resources : loads[r] <= 1
    /\ \A w \in Workers :
          /\ workers[w] = "Classifying" => claim_detector = "loaded"
          /\ workers[w] = "Querying"
                => (embedding_model = "loaded" /\ chroma_collection = "loaded")

\* C23: on the normal path only the first extracted claim is verified: once
\* the extractor has returned a non-empty sequence, main_claim is its first
\* element, the query of the retrieval, the claim given to the verifier and the
\* claim of the result are that element, and evidence, verdict and confidence
\* are determined by it, the matches of the store and the verifier's answer
\* alone, not by the other elements.
C23_OnlyFirstClaim ==
    (calls.extract_claims = 1 /\ claims # <<>>) =>
        /\ main_claim = claims[1]
        /\ retrieval_result.set => retrieval_result.query = claims[1].v
        /\ pc = "Verifying"
              => retrieval_result = RetrievalEntity(claims[1].v, store_out.hits)
        /\ pc = "Done"
              => /\ verification =
                      verify_claim(claims[1].v, retrieval_result.retrieved_documents,
                                   llm_out)
                 /\ result = FactCheckEntity(
                                 input_text, claims[1].v, StrField(verification.verdict),
                                 retrieval_result.retrieved_documents,
                                 StrField(verification.reasoning),
                                 ConfidenceOf(retrieval_result.similarity_scores))

C23_Witness ==
    /\ pc = "Done"
    /\ Len(claims) = 2
    /\ claims[1] # claims[2]
    /\ result.claim = claims[1].v
    /\ retrieval_result.query = claims[1].v
    /\ Len(result.evidence) >= 1

\* C24: when the verifier's response holds a JSON object, with or without
\* prose around it, verify_claim returns the verdict and the reasoning of the
\* first such object, Unverifiable standing for an absent verdict and "Unable
\* to determine." for an absent reasoning, also when a string value of the
\* object or the prose holds a brace.
C24_ReturnsWrappedObject ==
    (verification.set /\ llm_out.kind = "response") =>
        \A i, j \in 1..Len(llm_out.text) :
            (/\ i <= j
             /\ IsObject(SubSeq(llm_out.text, i, j))
             /\ \A h \in 1..(i - 1) : \A k \in h..Len(llm_out.text) :
                    ~IsObject(SubSeq(llm_out.text, h, k)))
            => LET object == JsonLoads(SubSeq(llm_out.text, i, j)).val.v IN
               /\ verification.verdict =
                     DictGet(object, KeyVerdict, JStr(StrUnverifiable))
               /\ verification.reasoning =
                     DictGet(object, KeyReasoning, JStr(UnableToDetermine))

\* C25: the reasoning verify_claim returns is never empty, whatever the
\* verifier answers: an empty response, a response without keywords, or an
\* object whose reasoning is the empty string.
C25_ReasoningNonEmpty ==
    verification.set => verification.reasoning # JStr(<<>>)

\* C26: in the RetrievalEntity retrieve_facts builds from at most
\* TOP_K_RESULTS matches that the store returns nearest first, the similarity
\* scores do not increase with the rank; document, score and source at each
\* index are those of the match at that index, so that matches at equal
\* distances have equal scores and stay in the order the store returned.
C26_RankedAndAligned ==
    (pc = "Verifying" /\ store_out.kind = "ok") =>
        LET hits   == store_out.hits
            scores == retrieval_result.similarity_scores
            n      == Len(hits)
        IN  /\ n <= TOP_K_RESULTS
            /\ Len(retrieval_result.retrieved_documents) = n
            /\ Len(scores) = n
            /\ Len(retrieval_result.sources) = n
            /\ \A i \in 1..(n - 1) : RatLeq(scores[i + 1], scores[i])
            /\ \A i \in 1..n :
                  /\ retrieval_result.retrieved_documents[i] = hits[i].document
                  /\ retrieval_result.sources[i] =
                        DictGet(hits[i].metadata, "source", StrUnknown)
                  /\ \A j \in 1..n :
                        /\ hits[i].distance = hits[j].distance
                              => scores[i] = scores[j]
                        /\ RatLess(hits[i].distance, hits[j].distance)
                              => RatLeq(scores[j], scores[i])

C26_Witness ==
    /\ pc = "Verifying"
    /\ Len(store_out.hits) = 2
    /\ store_out.hits[1].document = store[2].document
    /\ RatLess(store_out.hits[1].distance, store_out.hits[2].distance)
    /\ retrieval_result.retrieved_documents = <<store[2].document, store[1].document>>
    /\ RatLess(retrieval_result.similarity_scores[2],
               retrieval_result.similarity_scores[1])

\* C27: a short-circuit result has a confidence_score of at most 0.5 and comes
\* only from a classification that succeeded with a label without CFS and a
\* score of at most 0.5 (an absent label reads as '', an absent score as 0.0),
\* never from the fail-open default (True, 0.5) of a classifier that raised.
C27_ShortCircuitFromClassifier ==
    (pc = "ShortCircuitUnverifiable") =>
        /\ result.set
        /\ RatLeq(result.confidence_score, Half)
        /\ classifier_out.kind = "output"
        /\ classifier_out.items # <<>>
        /\ LET r == classifier_out.items[1] IN
           /\ r.dict
           /\ r.has_label => (r.label_str /\ ~OccursAnyCase(r.label, <<"c","f","s">>))
           /\ r.has_score => (r.score.num /\ RatLeq(r.score.v, Half))
           /\ result.confidence_score = (IF r.has_score THEN r.score.v ELSE Zero)

C27_Witness ==
    /\ pc = "ShortCircuitUnverifiable"
    /\ OutputWellFormed(classifier_out)
    /\ classifier_out.items[1].label = <<"N","F","S">>
    /\ classifier_out.items[1].score.v = Half
    /\ result.confidence_score = Half

\* C28: readiness is decided once, at startup: is_ready becomes true only in
\* the step that ends the startup probe with a result, after the ingestion
\* and the construction of the pipeline; once startup has ended not ready,
\* is_ready stays false and every check is answered 503; and no step of
\* request handling, whether the request succeeds, is rejected or fails,
\* changes is_ready, document_count or fact_checker.
C28_ReadinessDecidedOnce ==
    /\ [](app_state.is_ready
            => /\ lifespan = "Yielded"
               /\ IndexingDone
               /\ app_state.fact_checker = "FactCheckingPipeline"
               /\ app_state.document_count = ingestion.document_count)
    /\ [][/\ ((~app_state.is_ready /\ app_state'.is_ready)
                => (/\ lifespan = "Probing" /\ lifespan' = "Yielded"
                    /\ caller = "lifespan"
                    /\ pc' \in {"Done", "ShortCircuitUnverifiable"}))
           /\ ((lifespan = "Yielded" /\ ~app_state.is_ready)
                => ~app_state'.is_ready)
           /\ ((lifespan = "Yielded" /\ ~app_state.is_ready /\ CheckFactStep)
                => http_response' = HTTPException(503))
           /\ ((lifespan' = lifespan) => app_state' = app_state)]_vars

C28_Witness ==
    /\ app_state.is_ready
    /\ caller = "check_fact"
    /\ pc = "Raised"
    /\ http_response.status = 500
    /\ app_state.fact_checker = "FactCheckingPipeline"
    /\ app_state.document_count >= 1

\* C29: when the extractor returns an empty sequence, because the first JSON
\* array of the response is empty, run does not fail at that point: it goes on
\* to retrieval with the original input, unchanged, as the claim, the
\* retrieval is queried with it, and the claim of the result equals
\* original_input.
C29_EmptyExtractionUsesInput ==
    (calls.extract_claims = 1 /\ claims = <<>>) =>
        /\ pc = "Retrieving" => (/\ llm_out.kind = "response"
                                 /\ ReSearch(llm_out.text, "[", "]").found)
        /\ main_claim = JStr(input_text)
        /\ calls.retrieve_facts = 0 => pc = "Retrieving"
        /\ retrieval_result.set => retrieval_result.query = input_text
        /\ pc = "Done" => (/\ result.claim = input_text
                           /\ result.original_input = input_text
                           /\ verification =
                                 verify_claim(input_text,
                                              retrieval_result.retrieved_documents,
                                              llm_out))

C29_Witness ==
    /\ pc = "Done"
    /\ calls.extract_claims = 1
    /\ claims = <<>>
    /\ input_text # <<>>
    /\ result.claim = input_text
    /\ retrieval_result.query = input_text

====
